---- MODULE Spec2Model ----
(***************************************************************************)
(* The task engine of rally/task/engine.py: TaskEngine.validate/run, the   *)
(* per-workload ResultConsumer scope with its result-consumption loop and  *)
(* its abort watcher, the runner that feeds the result queue, and a writer *)
(* outside the process that requests a hard abort of the task.             *)
(***************************************************************************)
EXTENDS Integers, Sequences, FiniteSets, TLC

\* ------------------------------------------------------------- bounds
MaxSubtasks == 2         \* subtasks of a task
MaxEngineResults == 2    \* results of one workload, engine specification
MaxResults == 3          \* results of one workload, workload specifications
MaxBatch == 2            \* results of one batch
MaxTime == 2             \* timestamps are 1..MaxTime
MaxChunk == 2            \* chunk sizes are 1..MaxChunk
MaxEvents == 2           \* timeline events of one workload
MaxCalls == 3            \* calls of the static abort check in a row
MaxVersion == 3          \* "version" values of a task document are 1..MaxVersion
MaxItems == 2            \* scenarios (version 1) or subtasks (2) of a document
MaxVariants == 2         \* variants of a scenario, workloads of a subtask

\* CONF.raw_result_chunk_size, default
DefaultChunkSize == 1000

\* ---------------------------------------------------------- variables
VARIABLES
    subtasks,              \* config.subtasks: number of workloads of each subtask
    abort_on_sla_failure,  \* TaskEngine.abort_on_sla_failure
    chunk_size,            \* CONF.raw_result_chunk_size
    pc,                    \* position of the control thread (validate / run)
    si, wi,                \* subtask and workload the control thread is at
    raising,               \* the exception the control thread is unwinding with
    seenStatus,            \* the status run() read before setting FINISHED
    taskStatus,            \* the Task status in the shared store
    taskFailed,            \* number of task.set_failed calls
    subtaskStatus,         \* status of each subtask; "NONE" = not registered
    workload_data,         \* chunks persisted on the current workload
    workloadResults,       \* workload.set_results documents of the current workload
    is_done,               \* ResultConsumer.is_done
    results,               \* ResultConsumer.results
    load_started_at,       \* ResultConsumer.load_started_at
    load_finished_at,      \* ResultConsumer.load_finished_at
    workload_data_count,   \* ResultConsumer.workload_data_count
    task_aborted,          \* local latch of _consume_results
    rcPc,                  \* result-consumption thread: idle / loop / done
    waPc,                  \* abort-watcher thread: idle / loop / abort / done
    sla,                   \* the SLA checker of the current workload
    result_queue,          \* runner.result_queue: batches not yet consumed
    produced,              \* number of results the runner has pushed
    aborts,                \* runner.abort() calls, by caller
    softWrites,            \* writes of SOFT_ABORTING during the current workload
    hardAt,                \* workloads during whose execution a hard abort was set
    raisedAt,              \* the first workload whose runner invocation raised
    consumersOpened,       \* number of ResultConsumer scopes entered
    consumedLog,           \* every result consumed in the current workload, in order
    hooks,                 \* "hooks" in key["kw"]: the workloads declare hooks
    validation,            \* the passes validate() has run, each with its outcome
    event_queue,           \* runner.event_queue: events not yet dispatched
    emitted,               \* every event the runner has pushed, in order
    evPc,                  \* event-consumption thread: idle / loop / done
    dispatched,            \* hook_executor.on_event calls, in order
    storeOps,              \* store operations on the current workload, in order
    pushedLog,             \* every result the runner has pushed, in order
    checks,                \* calls of is_task_in_aborting_status: arguments, result
    document,              \* the task document handed to TaskEngine(...)
    config                 \* TaskConfig.subtasks: titles, workloads, positions

cfgVars == <<subtasks, abort_on_sla_failure, chunk_size, hooks, document, config>>
ctlVars == <<pc, si, wi, raising, seenStatus>>
storeVars == <<taskFailed, subtaskStatus, workload_data, workloadResults>>
loopVars == <<results, load_started_at, load_finished_at, workload_data_count,
              task_aborted, sla, softWrites, consumedLog, storeOps>>
runnerVars == <<result_queue, produced, pushedLog>>
evVars == <<event_queue, emitted, evPc, dispatched>>
histVars == <<hardAt, raisedAt, consumersOpened>>

vars == <<subtasks, abort_on_sla_failure, chunk_size, pc, si, wi, raising, seenStatus,
          taskStatus, taskFailed, subtaskStatus, workload_data, workloadResults,
          is_done, results, load_started_at, load_finished_at, workload_data_count,
          task_aborted, rcPc, waPc, sla, result_queue, produced, aborts,
          softWrites, hardAt, raisedAt, consumersOpened, consumedLog, hooks,
          validation, event_queue, emitted, evPc, dispatched, storeOps, pushedLog,
          checks, document, config>>

\* ------------------------------------------------------------ helpers
Max(a, b) == IF a >= b THEN a ELSE b
Min(a, b) == IF a <= b THEN a ELSE b

\* float("inf") and finite floats, as far as min() and subtraction need them
Inf == [inf |-> TRUE, v |-> 0]
Fin(n) == [inf |-> FALSE, v |-> n]
FMin(n, x) == IF x.inf THEN Fin(n) ELSE Fin(Min(n, x.v))

\* consts.TaskStatus values the engine reads and writes
AbortStages(check_soft) ==
    {"ABORTING", "ABORTED"} \cup (IF check_soft THEN {"SOFT_ABORTING"} ELSE {})

\* fault variant: check_soft is ignored, SOFT_ABORTING always counts
is_task_in_aborting_status_AlwaysSoft(status, check_soft) ==
    status \in AbortStages(TRUE)

\* ResultConsumer.is_task_in_aborting_status: Task.get_status(uuid) in stages
is_task_in_aborting_status(status, check_soft) == status \in AbortStages(check_soft)

\* consts.TaskStatus
TaskStatuses ==
    {"INIT", "VALIDATING", "RUNNING", "SOFT_ABORTING", "ABORTING", "ABORTED",
     "FINISHED", "CRASHED"}

\* list.sort(key=lambda x: x["timestamp"]): a stable sort by timestamp
RECURSIVE InsertByTimestamp(_, _)
InsertByTimestamp(r, s) ==
    IF s = <<>> THEN <<r>>
    ELSE IF s[Len(s)].timestamp <= r.timestamp THEN Append(s, r)
    ELSE Append(InsertByTimestamp(r, SubSeq(s, 1, Len(s) - 1)), s[Len(s)])

RECURSIVE SortByTimestamp(_)
SortByTimestamp(s) ==
    IF s = <<>> THEN <<>>
    ELSE InsertByTimestamp(s[Len(s)], SortByTimestamp(SubSeq(s, 1, Len(s) - 1)))

\* ------------------------------------------------------------ inputs
WorkloadCounts == {1, 2}
TaskConfigs ==
    UNION {[1..n -> WorkloadCounts] : n \in 1..MaxSubtasks}

\* results of the engine specification: only the SLA verdict varies
EngineResults ==
    {[timestamp |-> 1, duration |-> 0, ok |-> b] : b \in BOOLEAN}

\* results of the data specification: timestamps and durations vary
Durations == {0, 2}
DataResults ==
    {[timestamp |-> t, duration |-> d, ok |-> TRUE] :
        t \in 1..MaxTime, d \in Durations}

\* results of the termination specification: one result, whatever it holds
LiveResults == {[timestamp |-> 1, duration |-> 0, ok |-> TRUE]}

Batches(D) == UNION {[1..n -> D] : n \in 1..MaxBatch}

\* ------------------------------------------------------- TaskConfig
\* a task document, as far as TaskConfig looks at it: the "version" key (0 when
\* the key is absent), the shape of the rest (scenario names mapped to lists of
\* variants, or "title" and "subtasks"), its items in order, each with a name
\* and the number of its variants or workloads, and whether the rest of the
\* document is as the schema wants it
ItemNames == {"a", "b"}
DocumentItems ==
    {it \in UNION {[1..n -> [name : ItemNames, n : 0..MaxVariants]] :
                      n \in 0..MaxItems} :
        \A i, j \in 1..Len(it) : it[i].name = it[j].name => i = j}
Documents ==
    [version : 0..MaxVersion, shape : {"scenarios", "subtasks"},
     items : DocumentItems, wellformed : BOOLEAN]

\* TaskConfig._get_version: config.get("version", 1)
get_version(doc) == IF doc.version = 0 THEN 1 ELSE doc.version

\* TaskConfig._validate_version: the version is a key of CONFIG_SCHEMAS
validate_version(version) == version \in {1, 2}

\* TaskConfig._validate_json with CONFIG_SCHEMA_V1 (every key maps to an array,
\* which a "version" key does not) and CONFIG_SCHEMA_V2 ("title" and "subtasks"
\* required, at least one subtask, each with at least one workload)
validate_json(doc, version) ==
    /\ doc.wellformed
    /\ IF version = 1
       THEN doc.shape = "scenarios" /\ doc.version = 0
       ELSE /\ doc.shape = "subtasks"
            /\ Len(doc.items) >= 1
            /\ \A i \in 1..Len(doc.items) : doc.items[i].n >= 1

\* SubTask(config): the workloads with their positions from enumerate()
SubTask(title, workloads) ==
    [title |-> title,
     workloads |-> [p \in 1..Len(workloads) |->
                       [name |-> workloads[p].name,
                        variant |-> workloads[p].variant,
                        pos |-> p - 1]]]

\* fault variant: one subtask per scenario name, holding all its variants
RECURSIVE make_subtasks_v1_Grouped(_)
make_subtasks_v1_Grouped(items) ==
    IF items = <<>> THEN <<>>
    ELSE <<SubTask(Head(items).name,
                   [k \in 1..Head(items).n |->
                       [name |-> Head(items).name, variant |-> k]])>>
         \o make_subtasks_v1_Grouped(Tail(items))

\* _make_subtasks for version 1: for every name and every variant under it,
\* one SubTask titled with the name, holding that variant named with the name
RECURSIVE make_subtasks_v1(_)
make_subtasks_v1(items) ==
    IF items = <<>> THEN <<>>
    ELSE [k \in 1..Head(items).n |->
             SubTask(Head(items).name,
                     <<[name |-> Head(items).name, variant |-> k]>>)]
         \o make_subtasks_v1(Tail(items))

\* _make_subtasks for version 2: one SubTask per entry of "subtasks".  The
\* workloads of a version 2 document carry names of their own, which nothing
\* here depends on; they are all called "scenario"
make_subtasks_v2(items) ==
    [i \in 1..Len(items) |->
        SubTask(items[i].name,
                [k \in 1..items[i].n |-> [name |-> "scenario", variant |-> k]])]

make_subtasks(doc, version) ==
    IF version = 2 THEN make_subtasks_v2(doc.items)
    ELSE make_subtasks_v1(doc.items)

\* TaskConfig(config) raises nothing
TaskConfigOk(doc) ==
    /\ validate_version(get_version(doc))
    /\ validate_json(doc, get_version(doc))

\* the numbers of workloads of the subtasks of a TaskConfig
WorkloadCountsOf(cfg) == [s \in 1..Len(cfg) |-> Len(cfg[s].workloads)]

\* a version 2 document with the given numbers of workloads per subtask
DocumentOf(counts) ==
    [version |-> 2, shape |-> "subtasks", wellformed |-> TRUE,
     items |-> [s \in 1..Len(counts) |-> [name |-> "a", n |-> counts[s]]]]

\* -------------------------------------------------------------- Init
NoSla == [aborted_on_sla |-> 0, aborted_manually |-> FALSE,
          unexpected_failure |-> FALSE, failed |-> 0]
NoAborts == [by_sla |-> 0, by_watcher |-> 0]

\* everything but the task status and the position of the engine
InitState ==
    /\ si = 0 /\ wi = 0
    /\ raising = "none"
    /\ seenStatus = "NONE"
    /\ taskFailed = 0
    /\ subtaskStatus = [s \in 1..Len(subtasks) |-> "NONE"]
    /\ workload_data = <<>>
    /\ workloadResults = <<>>
    /\ is_done = FALSE
    /\ results = <<>>
    /\ load_started_at = Inf
    /\ load_finished_at = 0
    /\ workload_data_count = 0
    /\ task_aborted = FALSE
    /\ rcPc = "idle"
    /\ waPc = "idle"
    /\ sla = NoSla
    /\ result_queue = <<>>
    /\ produced = 0
    /\ aborts = NoAborts
    /\ softWrites = 0
    /\ hardAt = {}
    /\ raisedAt = <<0, 0>>
    /\ consumersOpened = 0
    /\ consumedLog = <<>>
    /\ validation = <<>>
    /\ event_queue = <<>>
    /\ emitted = <<>>
    /\ evPc = "idle"
    /\ dispatched = <<>>
    /\ storeOps = <<>>
    /\ pushedLog = <<>>
    /\ checks = <<>>

\* the engine was constructed from a document that TaskConfig accepted
Constructed ==
    /\ document = DocumentOf(subtasks)
    /\ config = make_subtasks(document, get_version(document))

InitCommon ==
    /\ pc = "init"
    /\ taskStatus = "INIT"
    /\ Constructed
    /\ InitState

Init ==
    /\ subtasks \in TaskConfigs
    /\ abort_on_sla_failure \in BOOLEAN
    /\ chunk_size = DefaultChunkSize
    /\ hooks = FALSE
    /\ InitCommon

\* one workload; the SLA verdicts vary
SlaInit ==
    /\ subtasks = <<1>>
    /\ abort_on_sla_failure \in BOOLEAN
    /\ chunk_size = DefaultChunkSize
    /\ hooks = FALSE
    /\ InitCommon

\* one workload; the chunk size, the timestamps and the durations vary
DataInit ==
    /\ subtasks = <<1>>
    /\ abort_on_sla_failure = FALSE
    /\ chunk_size \in 1..MaxChunk
    /\ hooks = FALSE
    /\ InitCommon

\* two workloads, in one subtask or in two; hooks declared or not
HookInit ==
    /\ subtasks \in {<<2>>, <<1, 1>>}
    /\ abort_on_sla_failure = FALSE
    /\ chunk_size = DefaultChunkSize
    /\ hooks \in BOOLEAN
    /\ InitCommon

\* one workload; hooks declared or not
LiveInit ==
    /\ subtasks = <<1>>
    /\ abort_on_sla_failure = FALSE
    /\ chunk_size = DefaultChunkSize
    /\ hooks \in BOOLEAN
    /\ InitCommon

\* a task in any status, on which only the static abort check is called
CheckInit ==
    /\ subtasks = <<1>>
    /\ abort_on_sla_failure = FALSE
    /\ chunk_size = DefaultChunkSize
    /\ hooks = FALSE
    /\ pc = "check"
    /\ taskStatus \in TaskStatuses
    /\ Constructed
    /\ InitState

\* a new task and any document; no engine yet
ConfigInit ==
    /\ document \in Documents
    /\ config = <<>>
    /\ subtasks = <<>>
    /\ abort_on_sla_failure = FALSE
    /\ chunk_size = DefaultChunkSize
    /\ hooks = FALSE
    /\ pc = "construct"
    /\ taskStatus = "INIT"
    /\ InitState

\* ------------------------------------------------- TaskEngine.__init__
\* TaskConfig(config) raises nothing: the engine exists, with its subtasks
ConstructOk ==
    /\ pc = "construct"
    /\ TaskConfigOk(document)
    /\ config' = make_subtasks(document, get_version(document))
    /\ subtasks' = WorkloadCountsOf(config')
    /\ subtaskStatus' = [s \in 1..Len(config') |-> "NONE"]
    /\ pc' = "init"
    /\ UNCHANGED <<abort_on_sla_failure, chunk_size, hooks, document, checks,
                   validation, evVars, si, wi, raising, seenStatus, taskStatus,
                   taskFailed, workload_data, workloadResults, is_done, loopVars,
                   rcPc, waPc, runnerVars, aborts, histVars>>

\* TaskConfig(config) raises: task.set_failed, raise InvalidTaskException; the
\* constructor does not return an engine
ConstructFail ==
    /\ pc = "construct"
    /\ ~TaskConfigOk(document)
    /\ taskFailed' = taskFailed + 1
    /\ raising' = "InvalidTaskException"
    /\ pc' = "no_engine"
    /\ UNCHANGED <<cfgVars, checks, validation, evVars,
                   si, wi, seenStatus, taskStatus, subtaskStatus,
                   workload_data, workloadResults, is_done, loopVars, rcPc, waPc,
                   runnerVars, aborts, histVars>>

\* ------------------------------- ResultConsumer.is_task_in_aborting_status
\* one call of the static method on the task: it reads the status and
\* returns; the call is logged with what it returned
CallCheck(check_soft) ==
    /\ pc = "check"
    /\ Len(checks) < MaxCalls
    /\ checks' = Append(checks,
                     [check_soft |-> check_soft,
                      returned   |-> is_task_in_aborting_status(taskStatus,
                                                                check_soft)])
    /\ UNCHANGED <<cfgVars, validation, evVars, ctlVars, taskStatus, storeVars,
                   is_done, loopVars, rcPc, waPc, runnerVars, aborts, histVars>>

\* ------------------------------------------------- TaskEngine.validate
\* validate(): task.update_status(VALIDATING)
Validate ==
    /\ pc = "init"
    /\ taskStatus' = "VALIDATING"
    /\ pc' = "validating"
    /\ UNCHANGED <<cfgVars, checks, validation, evVars,
                   si, wi, raising, seenStatus, storeVars, is_done, loopVars,
                   rcPc, waPc, runnerVars, aborts, histVars>>

\* the passes of validate() in the order of its try block: scenario names,
\* syntax, semantic
ValidationPasses == <<"names", "syntax", "semantic">>

\* validate(): the next pass of the try block runs and raises nothing; after
\* the last one validate() returns
ValidateOk ==
    /\ pc = "validating"
    /\ Len(validation) < Len(ValidationPasses)
    /\ validation' = Append(validation,
                         [pass   |-> ValidationPasses[Len(validation) + 1],
                          raised |-> FALSE])
    /\ pc' = IF Len(validation') = Len(ValidationPasses)
             THEN "validated" ELSE "validating"
    /\ UNCHANGED <<cfgVars, checks, evVars,
                   si, wi, raising, seenStatus, taskStatus, storeVars, is_done,
                   loopVars, rcPc, waPc, runnerVars, aborts, histVars>>

\* fault variant: the failure is recorded but the later passes still run
ValidateFail_GoesOn ==
    /\ pc = "validating"
    /\ Len(validation) < Len(ValidationPasses)
    /\ validation' = Append(validation,
                         [pass   |-> ValidationPasses[Len(validation) + 1],
                          raised |-> TRUE])
    /\ taskFailed' = taskFailed + 1
    /\ raising' = "InvalidTaskException"
    /\ pc' = IF Len(validation') = Len(ValidationPasses)
             THEN "invalid" ELSE "validating"
    /\ UNCHANGED <<cfgVars, checks, evVars,
                   si, wi, seenStatus, taskStatus, subtaskStatus,
                   workload_data, workloadResults, is_done, loopVars, rcPc, waPc,
                   runnerVars, aborts, histVars>>

\* fault variant: the except clause raises without task.set_failed
ValidateFail_Silent ==
    /\ pc = "validating"
    /\ Len(validation) < Len(ValidationPasses)
    /\ validation' = Append(validation,
                         [pass   |-> ValidationPasses[Len(validation) + 1],
                          raised |-> TRUE])
    /\ taskFailed' = taskFailed
    /\ raising' = "InvalidTaskException"
    /\ pc' = "invalid"
    /\ UNCHANGED <<cfgVars, checks, evVars,
                   si, wi, seenStatus, taskStatus, subtaskStatus,
                   workload_data, workloadResults, is_done, loopVars, rcPc, waPc,
                   runnerVars, aborts, histVars>>

\* validate(): the next pass of the try block raises; the except clause calls
\* task.set_failed and raises InvalidTaskException
ValidateFail ==
    /\ pc = "validating"
    /\ Len(validation) < Len(ValidationPasses)
    /\ validation' = Append(validation,
                         [pass   |-> ValidationPasses[Len(validation) + 1],
                          raised |-> TRUE])
    /\ taskFailed' = taskFailed + 1
    /\ raising' = "InvalidTaskException"
    /\ pc' = "invalid"
    /\ UNCHANGED <<cfgVars, checks, evVars,
                   si, wi, seenStatus, taskStatus, subtaskStatus,
                   workload_data, workloadResults, is_done, loopVars, rcPc, waPc,
                   runnerVars, aborts, histVars>>

\* ------------------------------------------------------ TaskEngine.run
\* run(): task.update_status(RUNNING), then the loop over config.subtasks
RunStart ==
    /\ pc = "validated"
    /\ taskStatus' = "RUNNING"
    /\ si' = 1
    /\ pc' = "next_subtask"
    /\ UNCHANGED <<cfgVars, checks, validation, evVars,
                   wi, raising, seenStatus, storeVars, is_done, loopVars,
                   rcPc, waPc, runnerVars, aborts, histVars>>

\* run(): next subtask of the loop; _run_subtask registers it (task.add_subtask)
NextSubtask ==
    /\ pc = "next_subtask"
    /\ si <= Len(subtasks)
    /\ subtaskStatus' = [subtaskStatus EXCEPT ![si] = "RUNNING"]
    /\ wi' = 1
    /\ pc' = "next_workload"
    /\ UNCHANGED <<cfgVars, checks, validation, evVars,
                   si, raising, seenStatus, taskStatus, taskFailed,
                   workload_data, workloadResults, is_done, loopVars, rcPc, waPc,
                   runnerVars, aborts, histVars>>

\* run(): the loop over subtasks ended without an exception: the else branch
\* reads the Task status
RunElseRead ==
    /\ pc = "next_subtask"
    /\ si > Len(subtasks)
    /\ seenStatus' = taskStatus
    /\ pc' = "run_finish"
    /\ UNCHANGED <<cfgVars, checks, validation, evVars,
                   si, wi, raising, taskStatus, storeVars, is_done, loopVars,
                   rcPc, waPc, runnerVars, aborts, histVars>>

\* fault variant: run() keeps every abort status, not only ABORTED
RunElseWrite_KeepsAborting ==
    /\ pc = "run_finish"
    /\ taskStatus' = IF ~is_task_in_aborting_status(seenStatus, TRUE) THEN "FINISHED" ELSE taskStatus
    /\ pc' = "done"
    /\ UNCHANGED <<cfgVars, checks, validation, evVars,
                   si, wi, raising, seenStatus, storeVars, is_done, loopVars,
                   rcPc, waPc, runnerVars, aborts, histVars>>

\* run(): if the status read is not ABORTED, task.update_status(FINISHED)
RunElseWrite ==
    /\ pc = "run_finish"
    /\ taskStatus' = IF seenStatus # "ABORTED" THEN "FINISHED" ELSE taskStatus
    /\ pc' = "done"
    /\ UNCHANGED <<cfgVars, checks, validation, evVars,
                   si, wi, raising, seenStatus, storeVars, is_done, loopVars,
                   rcPc, waPc, runnerVars, aborts, histVars>>

\* run(): except TaskAborted: task.update_status(ABORTED); run() returns
RunAborted ==
    /\ pc = "run_aborted"
    /\ taskStatus' = "ABORTED"
    /\ raising' = "none"
    /\ pc' = "done_aborted"
    /\ UNCHANGED <<cfgVars, checks, validation, evVars,
                   si, wi, seenStatus, storeVars, is_done, loopVars,
                   rcPc, waPc, runnerVars, aborts, histVars>>

\* ------------------------------------------------ TaskEngine._run_subtask
\* the loop over subtask.workloads ended: subtask_obj.update_status(FINISHED)
SubtaskFinished ==
    /\ pc = "next_workload"
    /\ wi > subtasks[si]
    /\ subtaskStatus' = [subtaskStatus EXCEPT ![si] = "FINISHED"]
    /\ si' = si + 1
    /\ pc' = "next_subtask"
    /\ UNCHANGED <<cfgVars, checks, validation, evVars,
                   wi, raising, seenStatus, taskStatus, taskFailed,
                   workload_data, workloadResults, is_done, loopVars, rcPc, waPc,
                   runnerVars, aborts, histVars>>

\* fault variant: the aborted subtask is recorded as finished
SubtaskAborted_Finished ==
    /\ pc = "sub_aborted"
    /\ subtaskStatus' = [subtaskStatus EXCEPT ![si] = "FINISHED"]
    /\ pc' = "run_aborted"
    /\ UNCHANGED <<cfgVars, checks, validation, evVars,
                   si, wi, raising, seenStatus, taskStatus, taskFailed,
                   workload_data, workloadResults, is_done, loopVars, rcPc, waPc,
                   runnerVars, aborts, histVars>>

\* except TaskAborted: subtask_obj.update_status(ABORTED); raise
SubtaskAborted ==
    /\ pc = "sub_aborted"
    /\ subtaskStatus' = [subtaskStatus EXCEPT ![si] = "ABORTED"]
    /\ pc' = "run_aborted"
    /\ UNCHANGED <<cfgVars, checks, validation, evVars,
                   si, wi, raising, seenStatus, taskStatus, taskFailed,
                   workload_data, workloadResults, is_done, loopVars, rcPc, waPc,
                   runnerVars, aborts, histVars>>

\* fault variant: the crashed subtask keeps the status it had
SubtaskCrashed_NoStatus ==
    /\ pc = "sub_crashed"
    /\ subtaskStatus' = subtaskStatus
    /\ pc' = "task_crashed"
    /\ UNCHANGED <<cfgVars, checks, validation, evVars,
                   si, wi, raising, seenStatus, taskStatus, taskFailed,
                   workload_data, workloadResults, is_done, loopVars, rcPc, waPc,
                   runnerVars, aborts, histVars>>

\* except Exception: subtask_obj.update_status(CRASHED)
SubtaskCrashed ==
    /\ pc = "sub_crashed"
    /\ subtaskStatus' = [subtaskStatus EXCEPT ![si] = "CRASHED"]
    /\ pc' = "task_crashed"
    /\ UNCHANGED <<cfgVars, checks, validation, evVars,
                   si, wi, raising, seenStatus, taskStatus, taskFailed,
                   workload_data, workloadResults, is_done, loopVars, rcPc, waPc,
                   runnerVars, aborts, histVars>>

\* fault variant: the exception is re-raised without crashing the task
TaskCrashed_NoStatus ==
    /\ pc = "task_crashed"
    /\ pc' = "raised"
    /\ UNCHANGED <<cfgVars, checks, validation, evVars,
                   si, wi, raising, seenStatus, taskStatus, storeVars,
                   is_done, loopVars, rcPc, waPc, runnerVars, aborts, histVars>>

\* except Exception: task.update_status(CRASHED); raise (out of run())
TaskCrashed ==
    /\ pc = "task_crashed"
    /\ taskStatus' = "CRASHED"
    /\ pc' = "raised"
    /\ UNCHANGED <<cfgVars, checks, validation, evVars,
                   si, wi, raising, seenStatus, storeVars, is_done, loopVars,
                   rcPc, waPc, runnerVars, aborts, histVars>>

\* ----------------------------------------------- TaskEngine._run_workload
\* fault variant: the pre-flight check passes check_soft=False
PreFlightAborting_HardOnly(status) == is_task_in_aborting_status(status, FALSE)

\* the pre-flight check of _run_workload: called without check_soft, so with
\* its default
PreFlightAborting(status) == is_task_in_aborting_status(status, TRUE)

\* if ResultConsumer.is_task_in_aborting_status(...): raise TaskAborted()
PreFlight ==
    /\ pc = "next_workload"
    /\ wi <= subtasks[si]
    /\ pc' = IF PreFlightAborting(taskStatus) THEN "sub_aborted" ELSE "setup"
    /\ raising' = IF PreFlightAborting(taskStatus) THEN "TaskAborted" ELSE "none"
    /\ UNCHANGED <<cfgVars, checks, validation, evVars,
                   si, wi, seenStatus, taskStatus, storeVars, is_done,
                   loopVars, rcPc, waPc, runnerVars, aborts, histVars>>

\* make_key, add_workload, _get_runner, _prepare_context returned
SetupOk ==
    /\ pc = "setup"
    /\ pc' = "enter"
    /\ UNCHANGED <<cfgVars, checks, validation, evVars,
                   si, wi, raising, seenStatus, taskStatus, storeVars, is_done,
                   loopVars, rcPc, waPc, runnerVars, aborts, histVars>>

\* one of them raised: the exception is outside the try of _run_workload
SetupRaise ==
    /\ pc = "setup"
    /\ raising' = "SetupError"
    /\ pc' = "sub_crashed"
    /\ UNCHANGED <<cfgVars, checks, validation, evVars,
                   si, wi, seenStatus, taskStatus, storeVars, is_done,
                   loopVars, rcPc, waPc, runnerVars, aborts, histVars>>

\* ------------------------------------------------------ ResultConsumer
\* with ResultConsumer(...): __init__ and __enter__ of a fresh consumer over a
\* fresh runner and a fresh workload object; both threads are started
EnterConsumer ==
    /\ pc = "enter"
    /\ is_done' = FALSE
    /\ results' = <<>>
    /\ load_started_at' = Inf
    /\ load_finished_at' = 0
    /\ workload_data_count' = 0
    /\ task_aborted' = FALSE
    /\ sla' = NoSla
    /\ result_queue' = <<>>
    /\ produced' = 0
    /\ aborts' = NoAborts
    /\ workload_data' = <<>>
    /\ workloadResults' = <<>>
    /\ softWrites' = 0
    /\ consumedLog' = <<>>
    /\ storeOps' = <<>>
    /\ pushedLog' = <<>>
    /\ event_queue' = <<>>
    /\ emitted' = <<>>
    /\ dispatched' = <<>>
    /\ raising' = "none"
    /\ rcPc' = "loop"
    /\ waPc' = "loop"
    /\ evPc' = IF hooks THEN "loop" ELSE "idle"
    /\ consumersOpened' = consumersOpened + 1
    /\ pc' = "running"
    /\ UNCHANGED <<cfgVars, checks, validation,
                   si, wi, seenStatus, taskStatus, taskFailed,
                   subtaskStatus, hardAt, raisedAt>>

\* the runner pushes one batch of results on runner.result_queue
RunnerPush(D, cap) ==
    /\ pc = "running"
    /\ \E b \in Batches(D) :
          /\ produced + Len(b) <= cap
          /\ result_queue' = Append(result_queue, b)
          /\ produced' = produced + Len(b)
          /\ pushedLog' = pushedLog \o b
    /\ UNCHANGED <<cfgVars, checks, validation, evVars,
                   ctlVars, taskStatus, storeVars, is_done, loopVars,
                   rcPc, waPc, aborts, histVars>>

\* runner_obj.run(...) returns; the context manager and the body end normally
RunnerReturn ==
    /\ pc = "running"
    /\ pc' = "exit"
    /\ UNCHANGED <<cfgVars, checks, validation, evVars,
                   si, wi, raising, seenStatus, taskStatus, storeVars, is_done,
                   loopVars, rcPc, waPc, runnerVars, aborts, histVars>>

\* runner_obj.run(...) or the context manager raises inside the scope
RunnerRaise ==
    /\ pc = "running"
    /\ raising' = "RunnerError"
    /\ raisedAt' = IF raisedAt = <<0, 0>> THEN <<si, wi>> ELSE raisedAt
    /\ pc' = "exit"
    /\ UNCHANGED <<cfgVars, checks, validation, evVars,
                   si, wi, seenStatus, taskStatus, storeVars, is_done,
                   loopVars, rcPc, waPc, runnerVars, aborts, hardAt,
                   consumersOpened>>

\* fault variant: the latch is never consulted, every failing verdict aborts
ShouldAbortOnSla_NoLatch(success, aborted) ==
    abort_on_sla_failure /\ ~success

\* the latch of _consume_results: abort on the first failing verdict only
ShouldAbortOnSla(success, aborted) ==
    abort_on_sla_failure /\ ~success /\ ~aborted

\* fault variant: the end of the load ignores the duration of the iteration
LoadFinishedAt_NoDuration(r, cur) == Max(r.timestamp, cur)

\* load_finished_at = max(r["duration"] + r["timestamp"], load_finished_at)
LoadFinishedAt(r, cur) == Max(r.duration + r.timestamp, cur)

\* load_started_at = min(r["timestamp"], load_started_at)
LoadStartedAt(r, cur) == FMin(r.timestamp, cur)

\* the body of "for r in results" of _consume_results, on the loop's state st
ConsumeOne(r, st) ==
    LET success == r.ok    \* sla_checker.add_iteration(r)
        trigger == ShouldAbortOnSla(success, st.task_aborted)
    IN  [load_started_at  |-> LoadStartedAt(r, st.load_started_at),
         load_finished_at |-> LoadFinishedAt(r, st.load_finished_at),
         failed           |-> st.failed + (IF success THEN 0 ELSE 1),
         aborted_on_sla   |-> st.aborted_on_sla + (IF trigger THEN 1 ELSE 0),
         by_sla           |-> st.by_sla + (IF trigger THEN 1 ELSE 0),
         softWrites       |-> st.softWrites + (IF trigger THEN 1 ELSE 0),
         status           |-> IF trigger THEN "SOFT_ABORTING" ELSE st.status,
         task_aborted     |-> st.task_aborted \/ trigger]

RECURSIVE ConsumeAll(_, _)
ConsumeAll(batch, st) ==
    IF batch = <<>> THEN st
    ELSE ConsumeAll(Tail(batch), ConsumeOne(Head(batch), st))

\* fault variant: a chunk is cut only when the buffer exceeds the chunk size
ChunkIsFull_Strict(buf) == Len(buf) > chunk_size

\* while len(self.results) >= chunk_size
ChunkIsFull(buf) == Len(buf) >= chunk_size

\* the "save results chunks" loop, on st = [buf, data, count]
RECURSIVE SaveChunks(_)
SaveChunks(st) ==
    IF ChunkIsFull(st.buf)
    THEN SaveChunks(
           [buf   |-> SubSeq(st.buf, chunk_size + 1, Len(st.buf)),
            data  |-> Append(st.data,
                        [index |-> st.count,
                         raw   |-> SortByTimestamp(SubSeq(st.buf, 1, chunk_size)),
                         by    |-> "loop"]),
            count |-> st.count + 1])
    ELSE st

\* _consume_results: the queue is not empty; pop one batch and process it
ConsumeBatch ==
    /\ rcPc = "loop"
    /\ result_queue # <<>>
    /\ LET batch == Head(result_queue)
           st == ConsumeAll(batch,
                   [load_started_at  |-> load_started_at,
                    load_finished_at |-> load_finished_at,
                    failed           |-> sla.failed,
                    aborted_on_sla   |-> sla.aborted_on_sla,
                    by_sla           |-> aborts.by_sla,
                    softWrites       |-> softWrites,
                    status           |-> taskStatus,
                    task_aborted     |-> task_aborted])
           ch == SaveChunks([buf   |-> results \o batch,
                             data  |-> workload_data,
                             count |-> workload_data_count])
       IN  /\ result_queue' = Tail(result_queue)
           /\ load_started_at' = st.load_started_at
           /\ load_finished_at' = st.load_finished_at
           /\ sla' = [sla EXCEPT !.failed = st.failed,
                                 !.aborted_on_sla = st.aborted_on_sla]
           /\ aborts' = [aborts EXCEPT !.by_sla = st.by_sla]
           /\ softWrites' = st.softWrites
           /\ taskStatus' = st.status
           /\ task_aborted' = st.task_aborted
           /\ results' = ch.buf
           /\ workload_data' = ch.data
           /\ workload_data_count' = ch.count
           /\ consumedLog' = consumedLog \o batch
           /\ storeOps' = storeOps \o
                 [k \in 1..(ch.count - workload_data_count) |-> "add_workload_data"]
    /\ UNCHANGED <<cfgVars, checks, validation, evVars,
                   ctlVars, taskFailed, subtaskStatus, workloadResults,
                   is_done, rcPc, waPc, produced, pushedLog, histVars>>

\* _consume_results: a call made while a popped batch is processed raises
\* (sla_checker.add_iteration or workload.add_workload_data); nothing in the
\* thread catches it, so the thread ends.  The batch was already appended to
\* self.results; the k iterations before the failing one were processed.
ResultLoopFault ==
    /\ rcPc = "loop"
    /\ result_queue # <<>>
    /\ LET batch == Head(result_queue)
       IN  \E k \in 0..(Len(batch) - 1) :
             LET st == ConsumeAll(SubSeq(batch, 1, k),
                         [load_started_at  |-> load_started_at,
                          load_finished_at |-> load_finished_at,
                          failed           |-> sla.failed,
                          aborted_on_sla   |-> sla.aborted_on_sla,
                          by_sla           |-> aborts.by_sla,
                          softWrites       |-> softWrites,
                          status           |-> taskStatus,
                          task_aborted     |-> task_aborted])
             IN  /\ result_queue' = Tail(result_queue)
                 /\ results' = results \o batch
                 /\ consumedLog' = consumedLog \o batch
                 /\ load_started_at' = st.load_started_at
                 /\ load_finished_at' = st.load_finished_at
                 /\ sla' = [sla EXCEPT !.failed = st.failed,
                                       !.aborted_on_sla = st.aborted_on_sla]
                 /\ aborts' = [aborts EXCEPT !.by_sla = st.by_sla]
                 /\ softWrites' = st.softWrites
                 /\ taskStatus' = st.status
                 /\ task_aborted' = st.task_aborted
    /\ rcPc' = "dead"
    /\ UNCHANGED <<cfgVars, checks, validation, evVars,
                   ctlVars, storeVars, workload_data_count, storeOps,
                   is_done, waPc, produced, pushedLog, histVars>>

\* fault variant: the loop breaks on is_done without looking at the queue
ResultLoopExit_Early ==
    /\ rcPc = "loop"
    /\ is_done
    /\ rcPc' = "done"
    /\ UNCHANGED <<cfgVars, checks, validation, evVars,
                   ctlVars, taskStatus, storeVars, is_done, loopVars,
                   waPc, runnerVars, aborts, histVars>>

\* _consume_results: the queue is empty and is_done is set: break
ResultLoopExit ==
    /\ rcPc = "loop"
    /\ result_queue = <<>>
    /\ is_done
    /\ rcPc' = "done"
    /\ UNCHANGED <<cfgVars, checks, validation, evVars,
                   ctlVars, taskStatus, storeVars, is_done, loopVars,
                   waPc, runnerVars, aborts, histVars>>

\* fault variant: the watcher loops forever unless a hard abort ends it
WatcherStop_OnAbortOnly ==
    /\ waPc = "loop"
    /\ is_done
    /\ is_task_in_aborting_status(taskStatus, FALSE)
    /\ waPc' = "done"
    /\ UNCHANGED <<cfgVars, checks, validation, evVars,
                   ctlVars, taskStatus, storeVars, is_done, loopVars,
                   rcPc, runnerVars, aborts, histVars>>

\* wait_and_abort: the loop condition finds is_done set
WatcherStop ==
    /\ waPc = "loop"
    /\ is_done
    /\ waPc' = "done"
    /\ UNCHANGED <<cfgVars, checks, validation, evVars,
                   ctlVars, taskStatus, storeVars, is_done, loopVars,
                   rcPc, runnerVars, aborts, histVars>>

\* fault variant: the watcher also reacts to a soft abort
WatcherAborting_Soft(status) == is_task_in_aborting_status(status, TRUE)

\* the status wait_and_abort looks for: check_soft=False
WatcherAborting(status) == is_task_in_aborting_status(status, FALSE)

\* wait_and_abort: is_done is not set and the hard-abort check is true
WatcherCheck ==
    /\ waPc = "loop"
    /\ ~is_done
    /\ WatcherAborting(taskStatus)
    /\ waPc' = "abort"
    /\ UNCHANGED <<cfgVars, checks, validation, evVars,
                   ctlVars, taskStatus, storeVars, is_done, loopVars,
                   rcPc, runnerVars, aborts, histVars>>

\* wait_and_abort: runner.abort(); task.update_status(ABORTED); break
WatcherAbort ==
    /\ waPc = "abort"
    /\ aborts' = [aborts EXCEPT !.by_watcher = @ + 1]
    /\ taskStatus' = "ABORTED"
    /\ waPc' = "done"
    /\ UNCHANGED <<cfgVars, checks, validation, evVars,
                   ctlVars, storeVars, is_done, loopVars, rcPc,
                   runnerVars, histVars>>

\* fault variant: __exit__ goes on to the joins without setting is_done
ExitSetDone_Unset ==
    /\ pc = "exit"
    /\ is_done' = is_done
    /\ pc' = "join_watcher"
    /\ UNCHANGED <<cfgVars, checks, validation, evVars,
                   si, wi, raising, seenStatus, taskStatus, storeVars,
                   loopVars, rcPc, waPc, runnerVars, aborts, histVars>>

\* __exit__: self.is_done.set()
ExitSetDone ==
    /\ pc = "exit"
    /\ is_done' = TRUE
    /\ pc' = "join_watcher"
    /\ UNCHANGED <<cfgVars, checks, validation, evVars,
                   si, wi, raising, seenStatus, taskStatus, storeVars,
                   loopVars, rcPc, waPc, runnerVars, aborts, histVars>>

\* __exit__: self.aborting_checker.join()
JoinWatcher ==
    /\ pc = "join_watcher"
    /\ waPc = "done"
    /\ pc' = "join_results"
    /\ UNCHANGED <<cfgVars, checks, validation, evVars,
                   si, wi, raising, seenStatus, taskStatus, storeVars, is_done,
                   loopVars, rcPc, waPc, runnerVars, aborts, histVars>>

\* fault variant: __exit__ does not wait for the result thread
JoinResults_NoWait ==
    /\ pc = "join_results"
    /\ rcPc \in {"loop", "done", "dead"}
    /\ pc' = IF hooks THEN "join_events" ELSE "finalize"
    /\ UNCHANGED <<cfgVars, checks, validation, evVars,
                   si, wi, raising, seenStatus, taskStatus, storeVars, is_done,
                   loopVars, rcPc, waPc, runnerVars, aborts, histVars>>

\* __exit__: self.thread.join()
JoinResults ==
    /\ pc = "join_results"
    /\ rcPc \in {"done", "dead"}
    /\ pc' = IF hooks THEN "join_events" ELSE "finalize"
    /\ UNCHANGED <<cfgVars, checks, validation, evVars,
                   si, wi, raising, seenStatus, taskStatus, storeVars, is_done,
                   loopVars, rcPc, waPc, runnerVars, aborts, histVars>>

\* fault variant: __exit__ does not wait for the event thread
JoinEvents_NoWait ==
    /\ pc = "join_events"
    /\ evPc \in {"loop", "done"}
    /\ pc' = "finalize"
    /\ UNCHANGED <<cfgVars, checks, validation, evVars,
                   si, wi, raising, seenStatus, taskStatus, storeVars, is_done,
                   loopVars, rcPc, waPc, runnerVars, aborts, histVars>>

\* __exit__ with hooks: self.event_thread.join()
JoinEvents ==
    /\ pc = "join_events"
    /\ evPc = "done"
    /\ pc' = "finalize"
    /\ UNCHANGED <<cfgVars, checks, validation, evVars,
                   si, wi, raising, seenStatus, taskStatus, storeVars, is_done,
                   loopVars, rcPc, waPc, runnerVars, aborts, histVars>>

\* results["hooks"] = self.hook_executor.results(), a key the document has
\* only when the workload declares hooks
HookSummary ==
    IF hooks THEN [present |-> TRUE, events |-> dispatched]
    ELSE [present |-> FALSE, events |-> <<>>]

\* load_duration = max(self.load_finished_at - self.load_started_at, 0)
LoadDuration(finished, started) ==
    IF started.inf THEN 0 ELSE Max(finished - started.v, 0)

\* fault variant: no except clause, the exception of the scope goes on upwards
AfterWorkload_Propagates(e) ==
    IF e = "none" THEN [pc |-> "next_workload", raising |-> "none"]
    ELSE [pc |-> "sub_crashed", raising |-> e]

\* _run_workload after the scope: "except Exception" swallows whatever the scope
\* raised, and the loop of _run_subtask takes the next workload
AfterWorkload(e) == [pc |-> "next_workload", raising |-> "none"]

\* __exit__ after the joins: the SLA marks, load_duration, the SLA and hook
\* summaries, the final flush and workload.set_results; then _run_workload
\* returns.  The marks and the SLA summary precede event_thread.join() in the
\* source; they read the exception, the task status and the checker, which no
\* thread alive during that join writes (the event loop only dispatches, and
\* nothing writes ABORTED once the watcher has ended), so they are taken here.
ExitFinalize ==
    /\ pc = "finalize"
    /\ LET marked == [sla EXCEPT
                        !.unexpected_failure = (raising # "none"),
                        !.aborted_manually = (taskStatus = "ABORTED")]
           sorted == SortByTimestamp(results)
       IN  /\ sla' = marked
           /\ results' = sorted
           /\ workload_data' =
                 IF results # <<>>
                 THEN Append(workload_data,
                        [index |-> workload_data_count, raw |-> sorted,
                         by |-> "exit"])
                 ELSE workload_data
           /\ workloadResults' = Append(workloadResults,
                 [load_duration |-> LoadDuration(load_finished_at, load_started_at),
                  sla |-> marked,
                  hooks |-> HookSummary])
           /\ storeOps' = storeOps \o
                 (IF results # <<>> THEN <<"add_workload_data">> ELSE <<>>) \o
                 <<"set_results">>
    /\ wi' = wi + 1
    /\ pc' = AfterWorkload(raising).pc
    /\ raising' = AfterWorkload(raising).raising
    /\ UNCHANGED <<cfgVars, checks, validation, evVars,
                   si, seenStatus, taskStatus, taskFailed,
                   subtaskStatus, is_done, load_started_at, load_finished_at,
                   workload_data_count, task_aborted, softWrites, consumedLog,
                   rcPc, waPc, runnerVars, aborts, histVars>>

\* ----------------------------------------------------- hook events
\* the events a runner sends: [type, value]
Events == {[type |-> "iteration", value |-> 1], [type |-> "time", value |-> 1]}

\* the events of the termination specification: what an event carries has no
\* part in when the loops end
LiveEvents == {[type |-> "iteration", value |-> 1]}

\* the runner pushes one event on runner.event_queue
RunnerEmit(E) ==
    /\ pc = "running"
    /\ Len(emitted) < MaxEvents
    /\ \E e \in E :
          /\ event_queue' = Append(event_queue, e)
          /\ emitted' = Append(emitted, e)
    /\ UNCHANGED <<cfgVars, checks, validation, evPc, dispatched,
                   ctlVars, taskStatus, storeVars, is_done, loopVars,
                   rcPc, waPc, runnerVars, aborts, histVars>>

\* _consume_events: the queue is not empty; pop one event and hand it to
\* hook_executor.on_event
ConsumeEvent ==
    /\ evPc = "loop"
    /\ event_queue # <<>>
    /\ event_queue' = Tail(event_queue)
    /\ dispatched' = Append(dispatched, Head(event_queue))
    /\ UNCHANGED <<cfgVars, checks, validation, emitted, evPc,
                   ctlVars, taskStatus, storeVars, is_done, loopVars,
                   rcPc, waPc, runnerVars, aborts, histVars>>

\* fault variant: the event loop ends on is_done, whatever is still queued
EventLoopExit_OnDone ==
    /\ evPc = "loop"
    /\ is_done
    /\ evPc' = "done"
    /\ UNCHANGED <<cfgVars, checks, validation, event_queue, emitted, dispatched,
                   ctlVars, taskStatus, storeVars, is_done, loopVars,
                   rcPc, waPc, runnerVars, aborts, histVars>>

\* _consume_events: is_done is set and the event queue is empty: the loop ends
EventLoopExit ==
    /\ evPc = "loop"
    /\ is_done
    /\ event_queue = <<>>
    /\ evPc' = "done"
    /\ UNCHANGED <<cfgVars, checks, validation, event_queue, emitted, dispatched,
                   ctlVars, taskStatus, storeVars, is_done, loopVars,
                   rcPc, waPc, runnerVars, aborts, histVars>>

\* --------------------------------------------------------- environment
\* a writer outside the process requests a hard abort of the running task
ExternalAbort ==
    /\ taskStatus \in {"RUNNING", "SOFT_ABORTING"}
    /\ taskStatus' = "ABORTING"
    /\ hardAt' = IF pc = "running" THEN hardAt \cup {<<si, wi>>} ELSE hardAt
    /\ UNCHANGED <<cfgVars, checks, validation, evVars,
                   ctlVars, storeVars, is_done, loopVars, rcPc, waPc,
                   runnerVars, aborts, raisedAt, consumersOpened>>

\* ------------------------------------------------------ specifications
\* one workload run to its end without a fault
Workload ==
    \/ Validate \/ ValidateOk
    \/ RunStart \/ NextSubtask \/ RunElseRead \/ RunElseWrite
    \/ SubtaskFinished \/ PreFlight \/ SetupOk
    \/ EnterConsumer \/ RunnerReturn
    \/ ConsumeBatch \/ ResultLoopExit \/ WatcherStop
    \/ ExitSetDone \/ JoinWatcher \/ JoinResults \/ ExitFinalize

\* a hard abort requested from outside, and what follows from it
HardAbort ==
    \/ ExternalAbort \/ WatcherCheck \/ WatcherAbort
    \/ SubtaskAborted \/ RunAborted

Faults ==
    \/ ValidateFail \/ SetupRaise \/ SubtaskCrashed \/ TaskCrashed
    \/ RunnerRaise

\* the engine over every task configuration
Next == Workload \/ HardAbort \/ Faults \/ RunnerPush(EngineResults, MaxEngineResults)

Spec == Init /\ [][Next]_vars

\* one workload under SLA verdicts, hard aborts and runner faults
SlaNext == Workload \/ HardAbort \/ RunnerRaise \/ RunnerPush(EngineResults, MaxResults)

SlaSpec == SlaInit /\ [][SlaNext]_vars

\* one workload under every chunk size, timestamp and duration
DataNext == Workload \/ RunnerRaise \/ RunnerPush(DataResults, MaxResults)

DataSpec == DataInit /\ [][DataNext]_vars

\* workloads with hooks: the runner sends events, the event loop dispatches them
HookEvents == RunnerEmit(Events) \/ ConsumeEvent \/ EventLoopExit \/ JoinEvents
HookNext ==
    \/ Workload \/ HookEvents \/ RunnerRaise
    \/ RunnerPush(EngineResults, MaxEngineResults)
HookSpec == HookInit /\ [][HookNext]_vars

\* one workload whose result loop may die of an exception
LoopFaultNext ==
    \/ Workload \/ ResultLoopFault \/ RunnerRaise
    \/ RunnerPush(EngineResults, MaxEngineResults)
LoopFaultSpec == SlaInit /\ [][LoopFaultNext]_vars

\* the steps of each thread.  The thread that calls validate() and run():
ControlThread ==
    \/ Validate \/ ValidateOk
    \/ RunStart \/ NextSubtask \/ RunElseRead \/ RunElseWrite \/ RunAborted
    \/ SubtaskFinished \/ SubtaskAborted \/ PreFlight \/ SetupOk
    \/ EnterConsumer \/ ExitSetDone \/ JoinWatcher \/ JoinResults \/ JoinEvents
    \/ ExitFinalize
\* self.thread, self.aborting_checker and self.event_thread
ResultThread == ConsumeBatch \/ ResultLoopExit
WatcherThread == WatcherStop \/ WatcherCheck \/ WatcherAbort
EventThread == ConsumeEvent \/ EventLoopExit
\* runner_obj.run(...) while it has not returned
RunnerRuns ==
    \/ RunnerPush(LiveResults, MaxEngineResults) \/ RunnerEmit(LiveEvents)
    \/ RunnerReturn \/ RunnerRaise

\* every thread that can take a step eventually takes one (the loops poll
\* with a sleep, the joins block on a thread), and every runner invocation
\* returns; no assumption on the writer of the hard abort
LiveNext ==
    \/ ControlThread \/ ResultThread \/ WatcherThread \/ EventThread
    \/ RunnerRuns \/ ExternalAbort
LiveSpec ==
    /\ LiveInit /\ [][LiveNext]_vars
    /\ WF_vars(ControlThread) /\ WF_vars(ResultThread)
    /\ WF_vars(WatcherThread) /\ WF_vars(EventThread)
    /\ WF_vars(RunnerReturn)

\* construction of the engine from any document, and the first steps of an
\* engine that exists
ConfigNext ==
    \/ ConstructOk \/ ConstructFail
    \/ Validate \/ ValidateOk \/ RunStart \/ NextSubtask
ConfigSpec == ConfigInit /\ [][ConfigNext]_vars

\* the static abort check alone, called with either value of check_soft
CheckNext == \E check_soft \in BOOLEAN : CallCheck(check_soft)
CheckSpec == CheckInit /\ [][CheckNext]_vars

\* ---------------------------------------------------------- properties
Returned == pc \in {"done", "done_aborted"}
CrashPcs == {"sub_crashed", "task_crashed", "raised"}

RECURSIVE SumTo(_, _)
SumTo(f, n) == IF n = 0 THEN 0 ELSE f[n] + SumTo(f, n - 1)

\* workloads of the task, and workloads that precede workload w of subtask s
TotalWorkloads == SumTo(subtasks, Len(subtasks))
WorkloadsBefore(s, w) == SumTo(subtasks, s - 1) + (w - 1)

\* the order of the Task statuses: the two abort requests share one place
StatusRank(st) ==
    CASE st = "INIT" -> 0
      [] st = "VALIDATING" -> 1
      [] st = "RUNNING" -> 2
      [] st \in {"SOFT_ABORTING", "ABORTING"} -> 3
      [] OTHER -> 4

\* C1: no write of the Task status moves it backwards in the order VALIDATING,
\* RUNNING, SOFT_ABORTING, {FINISHED, ABORTED, CRASHED}, and a Task that is
\* ABORTED stays ABORTED.
C1_StatusNeverRegresses ==
    [][/\ StatusRank(taskStatus') >= StatusRank(taskStatus)
       /\ (taskStatus = "ABORTED" => taskStatus' = "ABORTED")]_vars

\* C2: when run() has returned and a hard abort was requested while a workload
\* was executing, the Task status is ABORTED.
C2_HardAbortEndsAborted ==
    (Returned /\ hardAt # {}) => taskStatus = "ABORTED"

\* C3: when run() has returned and a hard abort was requested while the only
\* workload of a subtask was executing, that subtask is ABORTED.
C3_HardAbortSubtaskAborted ==
    Returned =>
        \A p \in hardAt : subtasks[p[1]] = 1 => subtaskStatus[p[1]] = "ABORTED"

\* C4: with abort_on_sla_failure set, once a verdict has failed the result loop
\* has called runner.abort() once, marked the checker aborted-on-SLA once and
\* written SOFT_ABORTING once, however many verdicts failed; otherwise it has
\* done none of the three.
C4_AbortOnSlaOnce ==
    rcPc \in {"loop", "done"} =>
        LET n == IF abort_on_sla_failure /\ sla.failed > 0 THEN 1 ELSE 0
        IN  /\ aborts.by_sla = n
            /\ sla.aborted_on_sla = n
            /\ softWrites = n

\* the first verdict passes, the second and the third fail, in any batching
C4_Witness ==
    /\ rcPc = "done"
    /\ abort_on_sla_failure
    /\ Len(consumedLog) = 3
    /\ consumedLog[1].ok /\ ~consumedLog[2].ok /\ ~consumedLog[3].ok
    /\ sla.failed = 2
    /\ aborts.by_sla = 1 /\ sla.aborted_on_sla = 1 /\ softWrites = 1

IsSortedByTimestamp(s) ==
    \A i, j \in 1..Len(s) : i < j => s[i].timestamp <= s[j].timestamp

ChunksBy(who) == SelectSeq(workload_data, LAMBDA c : c.by = who)

\* C5: while the result loop runs it has persisted floor(n / C) chunks of the n
\* results consumed, chunk k under index k with exactly C results sorted by
\* timestamp, and buffers fewer than C; after scope exit all N results pushed
\* are consumed and the final flush is one chunk of the N mod C results left,
\* sorted by timestamp, under the next index, or no chunk when N mod C = 0.
C5_Chunks ==
    /\ rcPc \in {"loop", "done"} =>
          /\ Len(ChunksBy("loop")) = Len(consumedLog) \div chunk_size
          /\ Len(ChunksBy("loop")) = workload_data_count
          /\ \A k \in 1..Len(ChunksBy("loop")) :
                /\ workload_data[k] = ChunksBy("loop")[k]
                /\ workload_data[k].index = k - 1
                /\ Len(workload_data[k].raw) = chunk_size
                /\ IsSortedByTimestamp(workload_data[k].raw)
          /\ workloadResults = <<>> => Len(results) < chunk_size
    /\ workloadResults # <<>> =>
          /\ Len(consumedLog) = produced
          /\ Len(ChunksBy("exit")) = (IF produced % chunk_size = 0 THEN 0 ELSE 1)
          /\ \A k \in 1..Len(ChunksBy("exit")) :
                /\ ChunksBy("exit")[k] = workload_data[Len(workload_data)]
                /\ ChunksBy("exit")[k].index = produced \div chunk_size
                /\ Len(ChunksBy("exit")[k].raw) = produced % chunk_size
                /\ IsSortedByTimestamp(ChunksBy("exit")[k].raw)

\* three results in chunks of two, the first two arriving out of order
C5_Witness ==
    /\ workloadResults # <<>>
    /\ chunk_size = 2
    /\ Len(consumedLog) = 3
    /\ consumedLog[1].timestamp > consumedLog[2].timestamp
    /\ Len(ChunksBy("loop")) = 1
    /\ Len(ChunksBy("exit")) = 1

SetMax(S) == CHOOSE m \in S : \A x \in S : x <= m
SetMin(S) == CHOOSE m \in S : \A x \in S : m <= x

ExpectedLoadDuration(log) ==
    IF log = <<>> THEN 0
    ELSE Max(SetMax({log[i].timestamp + log[i].duration : i \in 1..Len(log)})
             - SetMin({log[i].timestamp : i \in 1..Len(log)}), 0)

\* C6: the load_duration of the stored document is
\* max(max(timestamp + duration) - min(timestamp), 0) over the results consumed,
\* and 0 when none was consumed.
C6_LoadDuration ==
    workloadResults # <<>> =>
        /\ Len(consumedLog) = produced
        /\ workloadResults[1].load_duration = ExpectedLoadDuration(consumedLog)

\* three results; the latest end is the first result's, the earliest start the
\* last result's
C6_Witness ==
    /\ workloadResults # <<>>
    /\ Len(consumedLog) = 3
    /\ consumedLog[1] = [timestamp |-> 2, duration |-> 2, ok |-> TRUE]
    /\ consumedLog[2] = [timestamp |-> 2, duration |-> 0, ok |-> TRUE]
    /\ consumedLog[3] = [timestamp |-> 1, duration |-> 0, ok |-> TRUE]
    /\ workloadResults[1].load_duration = 3

\* C7: after a runner invocation raised, the control thread never unwinds with
\* that exception past _run_workload; when the loop over the subtasks has ended
\* every workload of the task was started and every subtask is FINISHED, and
\* the Task is FINISHED when run() read it RUNNING.
C7_RunnerFaultIsolated ==
    raisedAt # <<0, 0>> =>
        /\ pc \in CrashPcs => raising = "SetupError"
        /\ pc \in {"run_finish", "done"} =>
              /\ consumersOpened = TotalWorkloads
              /\ \A s \in 1..Len(subtasks) : subtaskStatus[s] = "FINISHED"
        /\ (pc = "done" /\ seenStatus = "RUNNING") => taskStatus = "FINISHED"

\* the only workload of the first of two subtasks raised; run() has returned
C7_Witness ==
    /\ pc = "done"
    /\ raisedAt = <<1, 1>>
    /\ Len(subtasks) = 2
    /\ consumersOpened = TotalWorkloads
    /\ subtaskStatus = <<"FINISHED", "FINISHED">>
    /\ taskStatus = "FINISHED"

\* C8: an exception of the setup of a workload leaves run(): the subtask is
\* CRASHED, then the Task is CRASHED and stays so, no later workload is
\* started and no later subtask is registered.
C8_CrashEscalates ==
    /\ raising = "SetupError" => pc \in CrashPcs
    /\ pc \in {"task_crashed", "raised"} =>
          /\ raising = "SetupError"
          /\ subtaskStatus[si] = "CRASHED"
          /\ \A s \in 1..Len(subtasks) : s > si => subtaskStatus[s] = "NONE"
          /\ consumersOpened = WorkloadsBefore(si, wi)
    /\ pc = "raised" => taskStatus = "CRASHED"

\* the second workload of the first of two subtasks crashed
C8_Witness ==
    /\ pc = "raised"
    /\ Len(subtasks) = 2
    /\ si = 1 /\ wi = 2
    /\ consumersOpened = 1
    /\ subtaskStatus = <<"CRASHED", "NONE">>
    /\ taskStatus = "CRASHED"

\* C9: when the pre-flight check raised the abort sentinel, the workload and
\* everything after it is never started, the subtask is ABORTED, then the Task
\* is ABORTED and run() has returned with no exception.
C9_PreFlightAbort ==
    /\ raising = "TaskAborted" => pc \in {"sub_aborted", "run_aborted"}
    /\ pc \in {"sub_aborted", "run_aborted", "done_aborted"} =>
          /\ \A s \in 1..Len(subtasks) : s > si => subtaskStatus[s] = "NONE"
          /\ consumersOpened = WorkloadsBefore(si, wi)
    /\ pc \in {"run_aborted", "done_aborted"} => subtaskStatus[si] = "ABORTED"
    /\ pc = "done_aborted" => (taskStatus = "ABORTED" /\ raising = "none")

\* aborted before the second workload of the first of two subtasks
C9_Witness ==
    /\ pc = "done_aborted"
    /\ Len(subtasks) = 2
    /\ si = 1 /\ wi = 2
    /\ consumersOpened = 1
    /\ subtaskStatus = <<"ABORTED", "NONE">>
    /\ taskStatus = "ABORTED"

\* a step of the pre-flight check of _run_workload
PreFlightStep == pc = "next_workload" /\ wi <= subtasks[si] /\ pc' # pc

\* C10 as stated: the pre-flight check raises the abort sentinel exactly when
\* the Task status is ABORTING or ABORTED.
C10_PreFlightHardOnly ==
    [][PreFlightStep =>
         (pc' = "sub_aborted" <=> taskStatus \in {"ABORTING", "ABORTED"})]_vars

\* C10 amended: the pre-flight check raises the abort sentinel exactly when the
\* Task status is ABORTING, ABORTED or SOFT_ABORTING.
C10_PreFlightAnyAbort ==
    [][PreFlightStep =>
         (pc' = "sub_aborted" <=>
             taskStatus \in {"ABORTING", "ABORTED", "SOFT_ABORTING"})]_vars

\* the sentinel was raised for a Task that is SOFT_ABORTING
C10_Witness ==
    /\ pc = "sub_aborted"
    /\ raising = "TaskAborted"
    /\ taskStatus = "SOFT_ABORTING"

\* C11: is_task_in_aborting_status only reads: a call changes nothing but the
\* log of calls, however often it is repeated; with check_soft false it returns
\* true exactly for ABORTING and ABORTED, with check_soft true also for
\* SOFT_ABORTING (so every call on an ABORTED task returns true)
C11_CheckReadsOnly ==
    [][checks' # checks =>
          /\ UNCHANGED <<cfgVars, validation, evVars, ctlVars, taskStatus,
                         storeVars, is_done, loopVars, rcPc, waPc, runnerVars,
                         aborts, histVars>>
          /\ Len(checks') = Len(checks) + 1
          /\ \A i \in 1..Len(checks') :
                checks'[i].returned =
                   IF checks'[i].check_soft
                   THEN taskStatus' \in {"SOFT_ABORTING", "ABORTING", "ABORTED"}
                   ELSE taskStatus' \in {"ABORTING", "ABORTED"}]_vars

C11_Witness ==
    /\ taskStatus = "ABORTED"
    /\ Len(checks) >= 2
    /\ \A i \in 1..Len(checks) : checks[i].returned
    /\ \E i \in 1..Len(checks) : ~checks[i].check_soft

\* C12: validate() sets the Task VALIDATING before any pass, runs the passes
\* in the order scenario names, syntax, semantic, and starts no pass after one
\* that raised: the semantic pass runs only after two passes without findings
C12_PassesInOrder ==
    /\ pc = "init" => validation = <<>>
    /\ pc \in {"validating", "invalid"} => taskStatus = "VALIDATING"
    /\ Len(validation) <= 3
    /\ \A i \in 1..Len(validation) :
          /\ validation[i].pass = <<"names", "syntax", "semantic">>[i]
          /\ i < Len(validation) => ~validation[i].raised

C12_Witness ==
    /\ pc = "invalid"
    /\ Len(validation) = 2
    /\ ~validation[1].raised
    /\ validation[2].raised

\* C13: when a pass raises, the failure is recorded on the Task exactly once
\* and validate() raises one InvalidTaskException; when no pass raises,
\* nothing is recorded and validate() returns; VALIDATING was set first
C13_FailureRecordedOnce ==
    LET anyRaised == \E i \in 1..Len(validation) : validation[i].raised
    IN  /\ anyRaised <=> pc = "invalid"
        /\ taskFailed = IF anyRaised THEN 1 ELSE 0
        /\ pc = "invalid" =>
              /\ raising = "InvalidTaskException"
              /\ taskStatus = "VALIDATING"
        /\ pc = "validated" =>
              /\ Len(validation) = 3
              /\ raising = "none"
              /\ taskStatus = "VALIDATING"
        /\ raising = "InvalidTaskException" => pc = "invalid"

C13_Witness ==
    /\ pc = "invalid"
    /\ Len(validation) = 3
    /\ validation[3].raised
    /\ taskFailed = 1
    /\ raising = "InvalidTaskException"

\* the positions of _run_workload inside the ResultConsumer scope
ScopePcs ==
    {"running", "exit", "join_watcher", "join_results", "join_events", "finalize"}

\* a background loop of the consumer is alive
LoopsAlive == rcPc = "loop" \/ waPc \in {"loop", "abort"} \/ evPc = "loop"

\* C14: run() takes the workloads in declared order, one at a time: background
\* loops are alive only inside the scope of the one workload in execution, and
\* once a workload's scope is left its three loops have ended and its result
\* document is stored before anything of the next workload starts
C14_OneWorkloadAtATime ==
    /\ LoopsAlive => pc \in ScopePcs
    /\ pc \in ScopePcs => consumersOpened = WorkloadsBefore(si, wi) + 1
    /\ (pc \in {"next_workload", "setup", "enter"}) =>
          consumersOpened = WorkloadsBefore(si, wi)
    /\ (consumersOpened > 0 /\ pc \notin ScopePcs) =>
          /\ ~LoopsAlive
          /\ rcPc = "done" /\ waPc = "done" /\ (hooks => evPc = "done")
          /\ Len(workloadResults) = 1

C14_Witness ==
    /\ pc = "enter"
    /\ consumersOpened = 1
    /\ hooks
    /\ dispatched # <<>>
    /\ consumedLog # <<>>
    /\ Len(workloadResults) = 1

\* C15: a fault inside the result loop is surfaced at scope exit: when the
\* result thread died of an exception, the stored document carries an
\* unexpected failure, or the scope exit raised
C15_LoopFaultSurfaced ==
    (rcPc = "dead" /\ workloadResults # <<>>) =>
        \/ workloadResults[1].sla.unexpected_failure
        \/ raising # "none"

\* the state of a workload whose result document is stored
DocumentStored ==
    LET n == Len(storeOps)
    IN  /\ \A i \in 1..n : storeOps[i] = "set_results" => i = n
        /\ Len(workloadResults) =
              IF n > 0 /\ storeOps[n] = "set_results" THEN 1 ELSE 0
        /\ Len(workloadResults) = 1 =>
              /\ is_done /\ waPc = "done" /\ rcPc = "done"
              /\ hooks => evPc = "done"
              /\ result_queue = <<>>
              /\ results # <<>> =>
                    /\ n >= 2 /\ storeOps[n - 1] = "add_workload_data"
                    /\ workload_data[Len(workload_data)].by = "exit"
                    /\ workload_data[Len(workload_data)].raw = results
        /\ (consumersOpened > 0 /\ pc \notin ScopePcs) =>
              Len(workloadResults) = 1

\* the step of __exit__ that stores the document
DocumentStoredStep ==
    workloadResults' # workloadResults /\ workloadResults' # <<>> =>
        /\ workloadResults = <<>>
        /\ Len(workloadResults') = 1
        /\ workloadResults'[1].sla.unexpected_failure = (raising # "none")

\* C16: the scope exit runs whether the body returned or raised, and stores
\* the result document exactly once, as the last store operation of the
\* workload: after the watcher, the result loop and (with hooks) the event
\* loop have ended and after the final flush; an exception of the body is in
\* the SLA summary of the document as an unexpected failure
C16_DocumentStoredLast == []DocumentStored /\ [][DocumentStoredStep]_vars

C16_Witness ==
    /\ Len(workloadResults) = 1
    /\ workloadResults[1].sla.unexpected_failure
    /\ hooks
    /\ dispatched # <<>>
    /\ storeOps = <<"add_workload_data", "set_results">>

\* two sequences hold the same items, each as often in one as in the other
IsPermutation(a, b) ==
    /\ Len(a) = Len(b)
    /\ \A x \in {a[i] : i \in 1..Len(a)} \cup {b[i] : i \in 1..Len(b)} :
          Cardinality({i \in 1..Len(a) : a[i] = x}) =
          Cardinality({i \in 1..Len(b) : b[i] = x})

\* C17: chunked persistence loses and duplicates nothing: after scope exit the
\* result queue is empty, with N results pushed and chunk size C chunk k
\* (k < N div C) is a permutation of arrivals kC .. (k+1)C-1, the final flush is
\* a permutation of the arrivals left, so each result is in exactly one chunk
C17_NoResultLost ==
    workloadResults # <<>> =>
        LET N == Len(pushedLog)
            C == chunk_size
            full == N \div C
        IN  /\ result_queue = <<>>
            /\ consumedLog = pushedLog
            /\ Len(workload_data) = full + (IF N % C = 0 THEN 0 ELSE 1)
            /\ \A k \in 0..(full - 1) :
                  IsPermutation(workload_data[k + 1].raw,
                                SubSeq(pushedLog, k * C + 1, (k + 1) * C))
            /\ N % C # 0 =>
                  IsPermutation(workload_data[full + 1].raw,
                                SubSeq(pushedLog, full * C + 1, N))

\* three results pushed in two batches, out of timestamp order, chunks of two
C17_Witness ==
    /\ workloadResults # <<>>
    /\ chunk_size = 2
    /\ Len(pushedLog) = 3
    /\ pushedLog[1].timestamp > pushedLog[2].timestamp
    /\ pushedLog[2].timestamp < pushedLog[3].timestamp
    /\ Len(workload_data) = 2

C19_WatcherAbortMarked ==
    (workloadResults # <<>> /\ aborts.by_watcher > 0) =>
        workloadResults[1].sla.aborted_manually

\* the statuses _run_subtask ends a subtask with
SubtaskTerminal == {"FINISHED", "ABORTED", "CRASHED"}

\* run() has returned or raised
RunEnded == pc \in {"done", "done_aborted", "raised"}

\* which subtasks are registered, and which have their final status
SubtasksSettled ==
    \A s \in 1..Len(subtasks) :
        /\ s < si => subtaskStatus[s] \in SubtaskTerminal
        /\ s > si => subtaskStatus[s] = "NONE"
        /\ (s = si /\ pc = "next_subtask") => subtaskStatus[s] = "NONE"
        /\ (s = si /\ pc # "next_subtask") => subtaskStatus[s] # "NONE"
        /\ RunEnded => subtaskStatus[s] \in SubtaskTerminal \cup {"NONE"}

\* a subtask status only goes NONE -> RUNNING -> terminal, and stays there
SubtaskStatusStep ==
    \A s \in 1..Len(subtasks) :
        /\ subtaskStatus[s] \in SubtaskTerminal =>
              subtaskStatus'[s] = subtaskStatus[s]
        /\ subtaskStatus[s] = "NONE" => subtaskStatus'[s] \in {"NONE", "RUNNING"}
        /\ subtaskStatus[s] = "RUNNING" =>
              subtaskStatus'[s] \in {"RUNNING"} \cup SubtaskTerminal
        /\ subtaskStatus'[s] # subtaskStatus[s] => s = si

\* C20: every subtask run() registers gets a terminal status exactly once,
\* never changed afterwards; a subtask run() never reaches, because of an
\* abort or a crash before it, is not registered and gets no status
C20_SubtaskStatusOnce == []SubtasksSettled /\ [][SubtaskStatusStep]_vars

C20_Witness ==
    /\ pc = "done_aborted"
    /\ Len(subtasks) = 2
    /\ si = 1 /\ wi = 1
    /\ subtaskStatus = <<"ABORTED", "NONE">>

\* C21: after the loop over the subtasks ended without the abort sentinel or a
\* crash, run() writes FINISHED only when the status it read is not ABORTED,
\* and a Task the abort watcher forced to ABORTED during the last workload is
\* still ABORTED when run() returns
C21_AbortedNotOverwritten ==
    pc = "done" =>
        /\ taskStatus = "FINISHED" => seenStatus # "ABORTED"
        /\ aborts.by_watcher > 0 => taskStatus = "ABORTED"

\* C22: with hooks the event loop ends only when it was told to stop and the
\* event queue is empty; every event the runner queued is dispatched to the
\* hook executor exactly once, in queue order, before the hook summary goes
\* into the result document.  Without hooks no event loop is started, nothing
\* is dispatched and the document has no hook summary
C22_EventsDispatched ==
    /\ hooks =>
          /\ dispatched \o event_queue = emitted
          /\ evPc = "done" => (is_done /\ event_queue = <<>>)
          /\ workloadResults # <<>> =>
                /\ evPc = "done"
                /\ workloadResults[1].hooks.present
                /\ workloadResults[1].hooks.events = emitted
    /\ ~hooks =>
          /\ evPc = "idle"
          /\ dispatched = <<>>
          /\ workloadResults # <<>> =>
                /\ ~workloadResults[1].hooks.present
                /\ workloadResults[1].hooks.events = <<>>

\* two different events reached the summary in the order they were queued
C22_Witness ==
    /\ hooks
    /\ workloadResults # <<>>
    /\ Len(emitted) = 2
    /\ emitted[1] # emitted[2]
    /\ workloadResults[1].hooks.events = emitted

\* the done flag is set in every position of __exit__ after is_done.set()
DoneFlagSet ==
    pc \in {"join_watcher", "join_results", "join_events", "finalize"} => is_done

\* who changes the buffer, the chunk index and the done flag.  A step that
\* leaves pc alone is a step of a background thread; one that moves pc is a
\* step of the thread that owns the scope
BufferAndFlagStep ==
    /\ (results' # results \/ workload_data_count' # workload_data_count) =>
          \/ /\ pc' = pc
             /\ rcPc = "loop"
             /\ result_queue' = Tail(result_queue)
          \/ /\ pc = "finalize"
             /\ rcPc \in {"done", "dead"}
             /\ workload_data_count' = workload_data_count
          \/ /\ pc = "enter"
             /\ rcPc # "loop"
    /\ (pc = "finalize" /\ pc' # pc) => rcPc \in {"done", "dead"}
    /\ is_done' # is_done =>
          \/ pc = "exit" /\ pc' # pc /\ is_done'
          \/ pc = "enter" /\ pc' # pc /\ rcPc # "loop" /\ waPc # "loop"

\* C23: the results buffer is single-writer and the done flag is one-shot:
\* while the result loop is alive only its own steps change the buffer and the
\* chunk index, the scope sorts and flushes the buffer only after that loop
\* has ended, and the flag is set once, at scope exit, and not cleared
C23_SingleWriter == []DoneFlagSet /\ [][BufferAndFlagStep]_vars

\* the loop cut a chunk and the scope flushed the rest
C23_Witness ==
    /\ workloadResults # <<>>
    /\ is_done
    /\ Len(ChunksBy("loop")) = 1
    /\ Len(ChunksBy("exit")) = 1
    /\ rcPc = "done"

\* the background loops of the consumer have all ended
LoopsEnded ==
    /\ waPc = "done"
    /\ rcPc = "done"
    /\ hooks => evPc = "done"

\* C24: scope exit terminates: once is_done is set the watcher, the result
\* loop and, with hooks, the event loop each end, so the joins return, and
\* run() returns or raises, given that every runner invocation returns
C24_ScopeExitTerminates ==
    /\ is_done ~> LoopsEnded
    /\ <>(pc \in {"done", "done_aborted", "raised"})

\* the workload is in its scope exit, the loops still running, events and
\* results still queued
C24_Witness ==
    /\ pc = "join_watcher"
    /\ is_done
    /\ hooks
    /\ waPc = "loop" /\ rcPc = "loop" /\ evPc = "loop"
    /\ result_queue # <<>>
    /\ event_queue # <<>>

\* C25 as claimed: when run() has returned and a threshold failure wrote
\* SOFT_ABORTING during it, the Task is ABORTED, also when that happened in the
\* last workload of the task
C25_SoftAbortEndsAborted ==
    (Returned /\ softWrites > 0) => taskStatus = "ABORTED"

\* C25 as the code has it: when the threshold failed in a workload that is not
\* the last, the next pre-flight check stops run() and the Task ends ABORTED;
\* when it failed in the last workload, run() ends normally and writes
\* FINISHED, unless the status it read was ABORTED
C25_SoftAbortOutcome ==
    (Returned /\ softWrites > 0) =>
        IF consumersOpened < TotalWorkloads
        THEN pc = "done_aborted" /\ taskStatus = "ABORTED"
        ELSE /\ pc = "done"
             /\ taskStatus = IF seenStatus = "ABORTED" THEN "ABORTED"
                             ELSE "FINISHED"

\* the threshold failed in the last of three workloads and the Task FINISHED
C25_Witness ==
    /\ pc = "done"
    /\ softWrites > 0
    /\ TotalWorkloads = 3
    /\ consumersOpened = 3
    /\ seenStatus = "SOFT_ABORTING"
    /\ taskStatus = "FINISHED"

\* the document is one TaskConfig must refuse: a version other than 1 and 2,
\* or a violation of the schema of its version
DocumentRefused ==
    LET version == IF document.version = 0 THEN 1 ELSE document.version
    IN  \/ version \notin {1, 2}
        \/ ~document.wellformed
        \/ version = 1 /\ (document.shape # "scenarios" \/ document.version # 0)
        \/ version = 2 /\
             \/ document.shape # "subtasks"
             \/ document.items = <<>>
             \/ \E i \in 1..Len(document.items) : document.items[i].n = 0

\* variants of the scenarios before item j of the document
RECURSIVE VariantsBefore(_)
VariantsBefore(j) ==
    IF j <= 1 THEN 0 ELSE document.items[j - 1].n + VariantsBefore(j - 1)

\* C26: a document with a version other than 1 and 2, or against the schema of
\* its version, makes the construction fail: the failure is recorded on the
\* Task once, InvalidTaskException is raised, there is no engine, the status
\* never becomes VALIDATING or RUNNING and nothing is registered.  A version 1
\* document gives one subtask per (scenario name, variant), in document order,
\* titled with the name and holding that variant alone at position 0
C26_ConfigFailsFast ==
    /\ pc # "construct" => (DocumentRefused <=> pc = "no_engine")
    /\ DocumentRefused =>
          /\ taskStatus = "INIT"
          /\ config = <<>> /\ subtasks = <<>> /\ subtaskStatus = <<>>
          /\ si = 0 /\ wi = 0 /\ consumersOpened = 0
          /\ taskFailed = IF pc = "no_engine" THEN 1 ELSE 0
          /\ pc = "no_engine" => raising = "InvalidTaskException"
    /\ ~DocumentRefused => (taskFailed = 0 /\ raising = "none")
    /\ (~DocumentRefused /\ pc # "construct") =>
          /\ subtasks = [s \in 1..Len(config) |-> Len(config[s].workloads)]
          /\ document.version = 0 =>
                /\ Len(config) = VariantsBefore(Len(document.items) + 1)
                /\ \A j \in 1..Len(document.items) :
                      \A k \in 1..document.items[j].n :
                         LET sub == config[VariantsBefore(j) + k]
                         IN  /\ sub.title = document.items[j].name
                             /\ Len(sub.workloads) = 1
                             /\ sub.workloads[1].name = document.items[j].name
                             /\ sub.workloads[1].variant = k
                             /\ sub.workloads[1].pos = 0

\* a version 1 document with two scenarios of two variants each became four
\* subtasks, and run() registered the first
C26_Witness ==
    /\ document.version = 0
    /\ Len(document.items) = 2
    /\ document.items[1].n = 2 /\ document.items[2].n = 2
    /\ Len(config) = 4
    /\ subtaskStatus[1] = "RUNNING"

\* a document of version 3 was refused
C26_WitnessRefused ==
    /\ document.version = 3
    /\ document.wellformed
    /\ pc = "no_engine"
    /\ taskFailed = 1

====
